---- MODULE Spec2Model ----
(***************************************************************************)
(* csv2httproute (main.go): run() resolves the input location, and         *)
(* processCSV() turns one CSV source into one HTTPRoute document.          *)
(*                                                                         *)
(* Strings the program computes with (file names, CSV fields) are          *)
(* sequences of one-character strings, so that TrimSpace, ToLower,         *)
(* ToUpper, HasPrefix, HasSuffix, TrimSuffix, ReplaceAll, Join and Base    *)
(* are computed character by character.  Strings the program only copies   *)
(* or compares with "" (the flags, the fixed identifiers of the            *)
(* HTTPRoute) are TLA+ strings.                                            *)
(***************************************************************************)
EXTENDS Integers, Sequences, FiniteSets, TLC

VARIABLES
    flags,      \* the flag variables of main.go:92-102
    fsys,       \* the input side of the file system, and the state of outputDir
    outFiles,   \* the files of outputDir: path -> content
    pc,         \* position of the program in run / processCSV
    idx,        \* run: position of the `for _, file := range files` loop
    path,       \* processCSV: its argument
    rd,         \* processCSV: the csv.Reader (the lines of the file, lines consumed, last result)
    header,     \* processCSV: the header record
    headerMap,  \* processCSV: column name -> index
    endpoints,  \* processCSV: the collected endpoints
    route,      \* processCSV: the HTTPRoute being built
    outPath,    \* processCSV: path of the output file
    ret,        \* processCSV: the error it returns ("nil" or an error)
    stdout,     \* lines printed with fmt.Printf
    runResult,  \* what run returned: "running", "nil" or an error
    calls,      \* history: the paths processCSV was called with, with what each returned
    nm          \* resource-name derivation applied to two file names

vars == <<flags, fsys, outFiles, pc, idx, path, rd, header, headerMap, endpoints,
          route, outPath, ret, stdout, runResult, calls, nm>>

(***************************************************************************)
(* Bounds of the model.                                                    *)
(***************************************************************************)
MaxFiles == 3
MaxRows == 3
MaxPieces == 2

(***************************************************************************)
(* package strings / path/filepath, on sequences of characters.            *)
(***************************************************************************)
Whitespace == {" ", "\t"}

Uppers == <<"A","B","C","D","E","F","G","H","I","J","K","L","M",
            "N","O","P","Q","R","S","T","U","V","W","X","Y","Z">>

Lowers == <<"a","b","c","d","e","f","g","h","i","j","k","l","m",
            "n","o","p","q","r","s","t","u","v","w","x","y","z">>

\* unicode.ToLower and unicode.ToUpper on the letters A-Z and a-z
LowerTable == [c \in {Uppers[i] : i \in 1..26} |-> Lowers[CHOOSE i \in 1..26 : Uppers[i] = c]]

UpperTable == [c \in {Lowers[i] : i \in 1..26} |-> Uppers[CHOOSE i \in 1..26 : Lowers[i] = c]]

LowerChar(c) == IF c \in DOMAIN LowerTable THEN LowerTable[c] ELSE c

UpperChar(c) == IF c \in DOMAIN UpperTable THEN UpperTable[c] ELSE c

ToLower(s) == [i \in 1..Len(s) |-> LowerChar(s[i])]

ToUpper(s) == [i \in 1..Len(s) |-> UpperChar(s[i])]

RECURSIVE TrimLeft(_)
TrimLeft(s) ==
    IF s # <<>> /\ Head(s) \in Whitespace THEN TrimLeft(Tail(s)) ELSE s

RECURSIVE TrimRight(_)
TrimRight(s) ==
    IF s # <<>> /\ s[Len(s)] \in Whitespace
    THEN TrimRight(SubSeq(s, 1, Len(s) - 1))
    ELSE s

TrimSpace(s) == TrimRight(TrimLeft(s))

HasPrefix(s, p) == Len(s) >= Len(p) /\ SubSeq(s, 1, Len(p)) = p

HasSuffix(s, p) == Len(s) >= Len(p) /\ SubSeq(s, Len(s) - Len(p) + 1, Len(s)) = p

TrimSuffix(s, p) == IF HasSuffix(s, p) THEN SubSeq(s, 1, Len(s) - Len(p)) ELSE s

\* strings.ReplaceAll for a non-empty old: non-overlapping occurrences, left to right.
RECURSIVE ReplaceAll(_, _, _)
ReplaceAll(s, old, new) ==
    IF s = <<>> THEN <<>>
    ELSE IF HasPrefix(s, old)
         THEN new \o ReplaceAll(SubSeq(s, Len(old) + 1, Len(s)), old, new)
         ELSE <<Head(s)>> \o ReplaceAll(Tail(s), old, new)

\* filepath.Join of two elements (an empty element is dropped).
Join(a, b) ==
    IF a = <<>> THEN b
    ELSE IF b = <<>> THEN a
    ELSE a \o <<"/">> \o b

\* filepath.Base: the last element of the path.
RECURSIVE Base(_)
Base(p) ==
    IF p = <<>> THEN <<".">>
    ELSE IF \E i \in 1..Len(p) : p[i] = "/"
         THEN LET k == CHOOSE i \in 1..Len(p) :
                           p[i] = "/" /\ \A j \in (i+1)..Len(p) : p[j] # "/"
              IN  IF k = Len(p)
                  THEN IF Len(p) = 1 THEN <<"/">> ELSE Base(SubSeq(p, 1, Len(p) - 1))
                  ELSE SubSeq(p, k + 1, Len(p))
         ELSE p

(***************************************************************************)
(* String literals of main.go.                                             *)
(***************************************************************************)
DotCsv == <<".", "c", "s", "v">>

DotYaml == <<".", "y", "a", "m", "l">>

EndpointsToken == <<"e", "n", "d", "p", "o", "i", "n", "t", "s", "-">>

Hash == <<"#">>

KeyMethod == <<"m", "e", "t", "h", "o", "d">>

KeyURL == <<"u", "r", "l">>

KeyPrefix == <<"p", "r", "e", "f", "i", "x">>

KeyComment == <<"c", "o", "m", "m", "e", "n", "t">>

(***************************************************************************)
(* processCSV, lines 208-211: the resource name of a source path.          *)
(***************************************************************************)
\* the derivation, were it to drop the hyphens too
ResourceNameStripsHyphens(p) ==
    ReplaceAll(ReplaceAll(ReplaceAll(TrimSuffix(Base(p), DotCsv), EndpointsToken, <<>>),
                          <<"_">>, <<"-">>), <<"-">>, <<>>)

ResourceName(p) ==
    LET baseName == TrimSuffix(Base(p), DotCsv)
        stripped == ReplaceAll(baseName, EndpointsToken, <<>>)
    IN  ReplaceAll(stripped, <<"_">>, <<"-">>)

\* processCSV, line 315
OutPathOf(outputDir, resourceName) == Join(outputDir, resourceName \o DotYaml)

(***************************************************************************)
(* encoding/csv as processCSV uses it (lines 170-173, 185): a source is a  *)
(* sequence of lines; a blank line is skipped by the reader, a line that   *)
(* cannot be tokenized makes Read return an error, any other line is a     *)
(* record of at least one field.  FieldsPerRecord = -1: any field count.   *)
(***************************************************************************)
Blank == [kind |-> "blank", fields |-> <<>>]

Bad == [kind |-> "bad", fields |-> <<>>]

Row(f) == [kind |-> "fields", fields |-> f]

RECURSIVE ReaderRead(_, _)
ReaderRead(lines, pos) ==
    IF pos >= Len(lines)
    THEN [kind |-> "eof", record |-> <<>>, pos |-> pos]
    ELSE LET l == lines[pos + 1]
         IN  IF l.kind = "bad"
             THEN [kind |-> "err", record |-> <<>>, pos |-> pos + 1]
             ELSE IF l.kind = "blank"
                  THEN ReaderRead(lines, pos + 1)
                  ELSE [kind |-> "record", record |-> l.fields, pos |-> pos + 1]

(***************************************************************************)
(* processCSV, lines 178-181: headerMap (0-based column indices; a later   *)
(* column of the same name overwrites an earlier one).                     *)
(***************************************************************************)
HeaderKey(h) == ToLower(TrimSpace(h))

RECURSIVE BuildHeaderMap(_, _, _)
BuildHeaderMap(hdr, i, m) ==
    IF i > Len(hdr) THEN m
    ELSE BuildHeaderMap(hdr, i + 1, (HeaderKey(hdr[i]) :> (i - 1)) @@ m)

HeaderMapOf(hdr) == BuildHeaderMap(hdr, 1, <<>>)

(***************************************************************************)
(* parseRecord, lines 332-347.                                             *)
(***************************************************************************)
Column(record, hm, key) ==
    IF key \in DOMAIN hm /\ hm[key] < Len(record)
    THEN TrimSpace(record[hm[key] + 1])
    ELSE <<>>

parseRecord(record, hm) ==
    [Method  |-> Column(record, hm, KeyMethod),
     URL     |-> Column(record, hm, KeyURL),
     Prefix  |-> Column(record, hm, KeyPrefix),
     Comment |-> Column(record, hm, KeyComment)]

\* processCSV, line 193: the rows the loop skips before parsing them
\* the test of line 193, were the first field not trimmed
SkipRowNoTrim(record) ==
    Len(record) = 0 \/ (Len(record) > 0 /\ HasPrefix(record[1], Hash))

SkipRow(record) ==
    Len(record) = 0 \/ (Len(record) > 0 /\ HasPrefix(TrimSpace(record[1]), Hash))

(***************************************************************************)
(* processCSV, lines 241-252: prefixGroups and prefixes.                   *)
(***************************************************************************)
RECURSIVE GroupByPrefix(_, _, _, _)
GroupByPrefix(es, i, prefixGroups, prefixes) ==
    IF i > Len(es)
    THEN [prefixGroups |-> prefixGroups, prefixes |-> prefixes]
    ELSE LET e  == es[i]
             ok == e.Prefix \in DOMAIN prefixGroups
         IN  IF e.Prefix # <<>>
             THEN GroupByPrefix(es, i + 1,
                      (e.Prefix :> ((IF ok THEN prefixGroups[e.Prefix] ELSE <<>>) \o <<e>>))
                          @@ prefixGroups,
                      IF ok THEN prefixes ELSE Append(prefixes, e.Prefix))
             ELSE GroupByPrefix(es, i + 1, prefixGroups, prefixes)

\* the prefixes, were one appended for every endpoint that has one
PrefixesOfEveryRow(es) ==
    LET withPrefix == SelectSeq(es, LAMBDA e : e.Prefix # <<>>)
    IN  [i \in 1..Len(withPrefix) |-> withPrefix[i].Prefix]

PrefixesOf(es) == GroupByPrefix(es, 1, <<>>, <<>>).prefixes

(***************************************************************************)
(* processCSV, lines 213-313: the HTTPRoute of a source.                   *)
(***************************************************************************)
\* the backend reference, were its weight left unset
BackendRefNoWeight(f) ==
    [Group     |-> "",
     Kind      |-> "Service",
     Name      |-> f.serviceName,
     Namespace |-> f.serviceNamespace,
     Port      |-> f.servicePort,
     Weight    |-> 0]

\* lines 277-286 and 293-302
BackendRefOf(f) ==
    [Group     |-> "",
     Kind      |-> "Service",
     Name      |-> f.serviceName,
     Namespace |-> f.serviceNamespace,
     Port      |-> f.servicePort,
     Weight    |-> 1]

\* lines 257-287
Rule1(prefix, f) ==
    [Matches     |-> << [Path   |-> [Type |-> "PathPrefix", Value |-> prefix],
                         Method |-> <<>>] >>,
     Filters     |-> << [Type       |-> "URLRewrite",
                         URLRewrite |-> [Path |-> [Type               |-> "ReplacePrefixMatch",
                                                   ReplacePrefixMatch |-> "/"]]] >>,
     BackendRefs |-> << BackendRefOf(f) >>]

\* rule2, were it to list only the endpoints without a prefix
Rule2OnlyUnprefixed(es, f) ==
    LET rest == SelectSeq(es, LAMBDA e : e.Prefix = <<>>)
    IN  [Matches     |-> [i \in 1..Len(rest) |->
                             [Path   |-> [Type |-> "PathPrefix", Value |-> rest[i].URL],
                              Method |-> ToUpper(rest[i].Method)]],
         Filters     |-> <<>>,
         BackendRefs |-> << BackendRefOf(f) >>]

\* lines 292-312
Rule2(es, f) ==
    [Matches     |-> [i \in 1..Len(es) |->
                         [Path   |-> [Type |-> "PathPrefix", Value |-> es[i].URL],
                          Method |-> ToUpper(es[i].Method)]],
     Filters     |-> <<>>,
     BackendRefs |-> << BackendRefOf(f) >>]

\* lines 255-313: the rewrite rules in the order of prefixes, then rule2
RulesOf(es, f) ==
    LET prefixes == PrefixesOf(es)
    IN  [i \in 1..Len(prefixes) |-> Rule1(prefixes[i], f)] \o << Rule2(es, f) >>

\* the gateway namespace, were it not to fall back on the namespace
GatewayNamespaceNoFallback(f) == f.gatewayNamespace

\* lines 213-216
EffectiveGatewayNamespace(f) ==
    IF f.gatewayNamespace = "" THEN f.namespace ELSE f.gatewayNamespace

\* lines 218-239 and 255-313
RouteOf(p, es, f) ==
    [APIVersion |-> "gateway.networking.k8s.io/v1",
     Kind       |-> "HTTPRoute",
     Metadata   |-> [Name |-> ResourceName(p), Namespace |-> f.namespace],
     Spec       |-> [ParentRefs |-> << [Group     |-> "gateway.networking.k8s.io",
                                        Kind      |-> "Gateway",
                                        Name      |-> f.gatewayName,
                                        Namespace |-> EffectiveGatewayNamespace(f)] >>,
                     Hostnames  |-> IF f.hostname # "" THEN << f.hostname >> ELSE <<>>,
                     Rules      |-> RulesOf(es, f)]]

NoRoute == [Kind |-> "none"]

(***************************************************************************)
(* The file system.  fsys.tree lists the nodes below the directory         *)
(* fsys.root in the order os.ReadDir returns them (sorted by file name);   *)
(* a node's parent is <<>> for an entry of root itself, or the name of the *)
(* subdirectory of root that holds it.                                     *)
(***************************************************************************)
NodeDir(n, root) == IF n.parent = <<>> THEN root ELSE Join(root, n.parent)

NodePath(n, root) == Join(NodeDir(n, root), n.name)

Nodes(fs) == {fs.tree[i] : i \in 1..Len(fs.tree)}

\* os.Stat(p), lines 129 and 135: "missing", "file" or "dir"
Stat(fs, p) ==
    IF p = fs.root
    THEN IF fs.rootExists THEN "dir" ELSE "missing"
    ELSE IF \E n \in Nodes(fs) : NodePath(n, fs.root) = p
         THEN LET n == CHOOSE n \in Nodes(fs) : NodePath(n, fs.root) = p
              IN  IF n.isDir THEN "dir" ELSE "file"
         ELSE "missing"

\* os.ReadDir(p), line 147: the immediate entries of p
ReadDir(fs, p) == SelectSeq(fs.tree, LAMBDA n : NodeDir(n, fs.root) = p)

\* os.Open(path), line 164: the content of the file at path
FileAt(fs, p) == (CHOOSE n \in Nodes(fs) : NodePath(n, fs.root) = p).src

\* the test of line 153, were directories not excluded
SelectedAnyKind(file) == HasSuffix(file.name, DotCsv)

\* run, line 153: the entries of the input directory that are processed
Selected(file) == ~file.isDir /\ HasSuffix(file.name, DotCsv)

(***************************************************************************)
(* Locals of processCSV outside a call.                                    *)
(***************************************************************************)
NoReader == [lines |-> <<>>, pos |-> 0, last |-> "none"]

LocalsIdle ==
    /\ path = <<>>
    /\ rd = NoReader
    /\ header = <<>>
    /\ headerMap = <<>>
    /\ endpoints = <<>>
    /\ route = NoRoute
    /\ outPath = <<>>
    /\ ret = "nil"

LocalsReset ==
    /\ path' = <<>>
    /\ rd' = NoReader
    /\ header' = <<>>
    /\ headerMap' = <<>>
    /\ endpoints' = <<>>
    /\ route' = NoRoute
    /\ outPath' = <<>>
    /\ ret' = "nil"

Locals == <<path, rd, header, headerMap, endpoints, route, outPath, ret>>

(***************************************************************************)
(* run, lines 128-161.                                                     *)
(***************************************************************************)
\* lines 129-150: the output directory, the input path, the dispatch
RunStart ==
    /\ pc = "run"
    /\ UNCHANGED <<flags, outFiles, rd, header, headerMap, endpoints, route, outPath,
                   ret, stdout, calls, nm, idx>>
    /\ IF ~fsys.outDirExists /\ ~fsys.mkdirOk
       THEN /\ runResult' = "failed to create output directory"
            /\ pc' = "done"
            /\ UNCHANGED <<fsys, path>>
       ELSE /\ fsys' = [fsys EXCEPT !.outDirExists = TRUE]
            /\ LET info == Stat(fsys, flags.inputDir)
               IN  IF info = "missing"
                   THEN /\ runResult' = "failed to access input"
                        /\ pc' = "done"
                        /\ path' = path
                   ELSE IF info = "file"
                   THEN IF ~HasSuffix(flags.inputDir, DotCsv)
                        THEN /\ runResult' = "input file must be a CSV file"
                             /\ pc' = "done"
                             /\ path' = path
                        ELSE /\ runResult' = runResult
                             /\ pc' = "open"
                             /\ path' = flags.inputDir
                   ELSE IF ~fsys.readDirOk
                        THEN /\ runResult' = "failed to read input directory"
                             /\ pc' = "done"
                             /\ path' = path
                        ELSE /\ runResult' = runResult
                             /\ pc' = "loop"
                             /\ path' = path

\* lines 152-154: an entry that is selected: processCSV is called
LoopCall ==
    /\ pc = "loop"
    /\ idx <= Len(ReadDir(fsys, flags.inputDir))
    /\ Selected(ReadDir(fsys, flags.inputDir)[idx])
    /\ path' = Join(flags.inputDir, ReadDir(fsys, flags.inputDir)[idx].name)
    /\ pc' = "open"
    /\ UNCHANGED <<flags, fsys, outFiles, idx, rd, header, headerMap, endpoints, route,
                   outPath, ret, stdout, runResult, calls, nm>>

\* lines 152-153: an entry that is not selected
LoopSkip ==
    /\ pc = "loop"
    /\ idx <= Len(ReadDir(fsys, flags.inputDir))
    /\ ~Selected(ReadDir(fsys, flags.inputDir)[idx])
    /\ idx' = idx + 1
    /\ UNCHANGED <<flags, fsys, outFiles, pc, Locals, stdout, runResult, calls, nm>>

\* line 160
LoopEnd ==
    /\ pc = "loop"
    /\ idx > Len(ReadDir(fsys, flags.inputDir))
    /\ runResult' = "nil"
    /\ pc' = "done"
    /\ UNCHANGED <<flags, fsys, outFiles, idx, Locals, stdout, calls, nm>>

\* the handling of the error, were the first failing source to end the run
AfterCallAborting(e) == [result |-> e, stop |-> (e # "nil")]

\* lines 144 and 154-156: what run does with the error processCSV returned: for a
\* single file it returns it, in the loop it goes on
AfterCall(e) ==
    IF Stat(fsys, flags.inputDir) = "file"
    THEN [result |-> e, stop |-> TRUE]
    ELSE [result |-> "running", stop |-> FALSE]

\* lines 144 and 154-156: processCSV has returned ret
Return ==
    /\ pc = "return"
    /\ calls' = Append(calls, [path |-> path, err |-> ret, n |-> Len(endpoints)])
    /\ LocalsReset
    /\ IF AfterCall(ret).stop
       THEN /\ runResult' = AfterCall(ret).result
            /\ pc' = "done"
            /\ UNCHANGED <<stdout, idx>>
       ELSE /\ stdout' = IF ret # "nil"
                         THEN Append(stdout, [kind |-> "Error processing",
                                              arg  |-> ReadDir(fsys, flags.inputDir)[idx].name,
                                              err  |-> ret])
                         ELSE stdout
            /\ idx' = idx + 1
            /\ pc' = "loop"
            /\ runResult' = runResult
    /\ UNCHANGED <<flags, fsys, outFiles, nm>>

(***************************************************************************)
(* processCSV, lines 163-330.                                              *)
(***************************************************************************)
\* lines 164-171
Open ==
    /\ pc = "open"
    /\ IF FileAt(fsys, path).openable
       THEN /\ rd' = [lines |-> FileAt(fsys, path).lines, pos |-> 0, last |-> "none"]
            /\ pc' = "header"
            /\ ret' = ret
       ELSE /\ ret' = "open"
            /\ pc' = "return"
            /\ rd' = rd
    /\ UNCHANGED <<flags, fsys, outFiles, idx, path, header, headerMap, endpoints, route,
                   outPath, stdout, runResult, calls, nm>>

\* lines 173-181
ReadHeader ==
    /\ pc = "header"
    /\ LET r == ReaderRead(rd.lines, rd.pos)
       IN  /\ rd' = [rd EXCEPT !.pos = r.pos, !.last = r.kind]
           /\ IF r.kind = "record"
              THEN /\ header' = r.record
                   /\ headerMap' = HeaderMapOf(r.record)
                   /\ pc' = "rows"
                   /\ ret' = ret
              ELSE /\ ret' = IF r.kind = "eof" THEN "EOF" ELSE "csv.ParseError"
                   /\ pc' = "return"
                   /\ UNCHANGED <<header, headerMap>>
    /\ UNCHANGED <<flags, fsys, outFiles, idx, path, endpoints, route, outPath, stdout,
                   runResult, calls, nm>>

\* the test of line 189, were the error of Read ignored
ReadFailedIgnored(r) == FALSE

\* lines 189-191: Read returned an error other than io.EOF
ReadFailed(r) == r.kind = "err"

\* lines 184-202: one iteration of the loop over the records
ReadRecord ==
    /\ pc = "rows"
    /\ LET r == ReaderRead(rd.lines, rd.pos)
           e == parseRecord(r.record, headerMap)
       IN  /\ rd' = [rd EXCEPT !.pos = r.pos, !.last = r.kind]
           /\ IF r.kind = "eof"
              THEN /\ pc' = "generate"
                   /\ UNCHANGED <<ret, endpoints>>
              ELSE IF ReadFailed(r)
              THEN /\ ret' = "csv.ParseError"
                   /\ pc' = "return"
                   /\ UNCHANGED endpoints
              ELSE /\ endpoints' = IF SkipRow(r.record) \/ e.URL = <<>>
                                   THEN endpoints
                                   ELSE Append(endpoints, e)
                   /\ UNCHANGED <<pc, ret>>
    /\ UNCHANGED <<flags, fsys, outFiles, idx, path, header, headerMap, route, outPath,
                   stdout, runResult, calls, nm>>

\* the test of line 204, were it missing
NothingToWriteNever(es) == FALSE

\* line 204
NothingToWrite(es) == Len(es) = 0

\* lines 204-315: nothing is written for no endpoints; else the route and its path
Generate ==
    /\ pc = "generate"
    /\ IF NothingToWrite(endpoints)
       THEN /\ pc' = "return"
            /\ UNCHANGED <<route, outPath>>
       ELSE /\ route' = RouteOf(path, endpoints, flags)
            /\ outPath' = OutPathOf(flags.outputDir, ResourceName(path))
            /\ pc' = "create"
    /\ UNCHANGED <<flags, fsys, outFiles, idx, path, rd, header, headerMap, endpoints, ret,
                   stdout, runResult, calls, nm>>

\* lines 316-320: os.Create truncates the file or creates it, or fails
Create ==
    /\ pc = "create"
    /\ \E ok \in BOOLEAN :
          IF ok
          THEN /\ outFiles' = (outPath :> [kind |-> "empty", doc |-> NoRoute]) @@ outFiles
               /\ pc' = "encode"
               /\ ret' = ret
          ELSE /\ ret' = "create"
               /\ pc' = "return"
               /\ outFiles' = outFiles
    /\ UNCHANGED <<flags, fsys, idx, path, rd, header, headerMap, endpoints, route, outPath,
                   stdout, runResult, calls, nm>>

\* lines 322-329: the document is written and announced, or the encoder fails
Encode ==
    /\ pc = "encode"
    /\ \E ok \in BOOLEAN :
          IF ok
          THEN /\ outFiles' = (outPath :> [kind |-> "doc", doc |-> route]) @@ outFiles
               /\ stdout' = Append(stdout, [kind |-> "Generated", arg |-> outPath, err |-> "nil"])
               /\ ret' = "nil"
          ELSE /\ outFiles' = (outPath :> [kind |-> "partial", doc |-> NoRoute]) @@ outFiles
               /\ ret' = "encode"
               /\ stdout' = stdout
    /\ pc' = "return"
    /\ UNCHANGED <<flags, fsys, idx, path, rd, header, headerMap, endpoints, route, outPath,
                   runResult, calls, nm>>

Next ==
    \/ RunStart
    \/ LoopCall
    \/ LoopSkip
    \/ LoopEnd
    \/ Return
    \/ Open
    \/ ReadHeader
    \/ ReadRecord
    \/ Generate
    \/ Create
    \/ Encode

(***************************************************************************)
(* Inputs: CSV fields, lines, headers and sources.                         *)
(***************************************************************************)
SeqUpTo(S, n) == UNION {[1..k -> S] : k \in 0..n}

FieldGet == <<"g", "e", "t">>

FieldGET == <<"G", "E", "T">>

FieldPost == <<" ", "P", "o", "s", "t", " ">>

FieldA == <<"/", "a">>

FieldB == <<" ", "/", "b", "\t">>

FieldP == <<"/", "p">>

FieldQ == <<" ", "/", "q">>

LineSet ==
    { Row(<<FieldGet, FieldA, FieldP>>),          \* get,/a,/p
      Row(<<FieldPost, FieldB, FieldQ>>),         \* fields with surrounding white space
      Row(<<<<>>, FieldA>>),                      \* a short row with an empty first field
      Row(<<<<"#", "x">>, FieldA, FieldP>>),      \* a comment line
      Row(<<<<" ", "#">>, FieldB>>),              \* a comment line after trimming
      Row(<<FieldGet, <<" ">>, FieldP>>),         \* second field empty after trimming
      Row(<<<<"g", "#">>>>),                      \* one field, "#" not in front
      Blank,
      Bad }

HeaderSet ==
    { <<<<"M", "e", "t", "h", "o", "d">>, <<"U", "R", "L">>, <<"P", "r", "e", "f", "i", "x">>>>,
      <<<<" ", "u", "r", "l", " ">>, <<"P", "R", "E", "F", "I", "X">>, KeyMethod>>,
      <<<<"#", "M", "e", "t", "h", "o", "d">>, <<"p", "a", "t", "h">>>>,
      <<KeyURL, <<"P", "r", "e", "f", "i", "x">>, <<"U", "r", "l">>>> }

HeaderMUP == <<<<"M", "e", "t", "h", "o", "d">>, <<"U", "R", "L">>, <<"P", "r", "e", "f", "i", "x">>>>

\* every source of at most MaxRows lines after its first line, and the empty file
AllSources ==
    { [openable |-> TRUE, lines |-> <<>>] }
    \cup { [openable |-> TRUE, lines |-> <<h>> \o rows] :
              h \in {Row(x) : x \in HeaderSet} \cup {Bad}, rows \in SeqUpTo(LineSet, MaxRows) }

SrcGood ==
    [openable |-> TRUE,
     lines |-> << Row(HeaderMUP), Row(<<FieldGet, FieldA, FieldP>>), Row(<<FieldPost, FieldB>>) >>]

SrcBadRow ==
    [openable |-> TRUE,
     lines |-> << Row(HeaderMUP), Row(<<FieldGet, FieldA, FieldP>>), Bad >>]

SrcNoEndpoints ==
    [openable |-> TRUE,
     lines |-> << Row(HeaderMUP), Row(<<<<"#", "x">>, FieldA, FieldP>>) >>]

SrcClosed == [openable |-> FALSE, lines |-> <<>>]

\* the contents a file of a batch may have
Sources == << SrcGood, SrcBadRow, SrcNoEndpoints, SrcClosed >>

(***************************************************************************)
(* Inputs: the nodes a tree is made of, sorted by name as os.ReadDir       *)
(* returns them ("-" < "." < "_" < letters), a subdirectory's entry behind  *)
(* the subdirectory.                                                       *)
(***************************************************************************)
NameHyphen == <<"a", "-", "b">> \o DotCsv

NameUnderscore == <<"a", "_", "b">> \o DotCsv

NameDir == <<"d">> \o DotCsv

NameNested == <<"x">> \o DotCsv

NameToken == EndpointsToken \o <<"c">> \o DotCsv

NameTxt == <<"n", ".", "t", "x", "t">>

Catalog ==
    << [name |-> NameHyphen,     isDir |-> FALSE, parent |-> <<>>],
       [name |-> NameUnderscore, isDir |-> FALSE, parent |-> <<>>],
       [name |-> NameDir,        isDir |-> TRUE,  parent |-> <<>>],
       [name |-> NameNested,     isDir |-> FALSE, parent |-> NameDir],
       [name |-> NameToken,      isDir |-> FALSE, parent |-> <<>>],
       [name |-> NameTxt,        isDir |-> FALSE, parent |-> <<>>] >>

\* a selection gives every node of the catalog 0 (absent) or the index of its content
Selections(maxNodes) ==
    { sel \in [1..Len(Catalog) -> 0..Len(Sources)] :
        /\ Cardinality({i \in 1..Len(Catalog) : sel[i] # 0}) <= maxNodes
        /\ \A i \in 1..Len(Catalog) :
              /\ (sel[i] > 1 => (~Catalog[i].isDir /\ HasSuffix(Catalog[i].name, DotCsv)))
              /\ (sel[i] # 0 /\ Catalog[i].parent # <<>> =>
                     \E j \in 1..Len(Catalog) :
                         sel[j] # 0 /\ Catalog[j].isDir /\ Catalog[j].name = Catalog[i].parent) }

TreeOf(sel) ==
    LET all == [i \in 1..Len(Catalog) |->
                   [name    |-> Catalog[i].name,
                    isDir   |-> Catalog[i].isDir,
                    parent  |-> Catalog[i].parent,
                    present |-> sel[i] # 0,
                    src     |-> Sources[IF sel[i] = 0 THEN 1 ELSE sel[i]]]]
    IN  SelectSeq(all, LAMBDA n : n.present)

Root == <<"i", "n">>

OutputDir == <<"o">>

Flags(in, gns, ns, host, svc, svcns, port) ==
    [inputDir         |-> in,
     outputDir        |-> OutputDir,
     serviceName      |-> svc,
     servicePort      |-> port,
     serviceNamespace |-> svcns,
     gatewayName      |-> "my-gateway",
     gatewayNamespace |-> gns,
     namespace        |-> ns,
     hostname         |-> host]

\* two settings of the flags for an input path
FlagChoices(in) ==
    { Flags(in, "", "production", "", "my-service", "", 80),
      Flags(in, "infra", "default", "api.example.com", "api-svc", "backend", 8080) }

\* a file that is in outputDir before the run
OldFile == [kind |-> "old", doc |-> NoRoute]

OldFiles == (OutPathOf(OutputDir, <<"a", "-", "b">>) :> OldFile)

InitCommon ==
    /\ pc = "run"
    /\ idx = 1
    /\ LocalsIdle
    /\ stdout = <<>>
    /\ runResult = "running"
    /\ calls = <<>>
    /\ nm = [a |-> <<>>, b |-> <<>>, ra |-> <<>>, rb |-> <<>>, derived |-> FALSE]

\* a batch: any tree of at most MaxFiles nodes, any input path, outputDir there or not
Init ==
    /\ InitCommon
    /\ \E sel \in Selections(MaxFiles), rootExists \in BOOLEAN, readDirOk \in BOOLEAN,
          out \in {"there", "absent", "denied"} :
          /\ (~rootExists => \A i \in 1..Len(Catalog) : sel[i] = 0)
          /\ fsys = [root         |-> Root,
                     rootExists   |-> rootExists,
                     readDirOk    |-> readDirOk,
                     tree         |-> TreeOf(sel),
                     outDirExists |-> (out = "there"),
                     mkdirOk      |-> (out # "denied")]
          /\ outFiles = IF out = "there" THEN OldFiles ELSE <<>>
    /\ \E in \in {Root} \cup {Join(Root, Catalog[i].name) :
                                 i \in {j \in 1..Len(Catalog) : Catalog[j].parent = <<>>}} :
          flags \in FlagChoices(in)

Spec == Init /\ [][Next]_vars

\* one source of any content, given as a single file or alone with a text file in a directory
InitCSV ==
    /\ InitCommon
    /\ \E src \in AllSources :
          fsys = [root         |-> Root,
                  rootExists   |-> TRUE,
                  readDirOk    |-> TRUE,
                  tree         |-> << [name |-> NameUnderscore, isDir |-> FALSE, parent |-> <<>>,
                                       present |-> TRUE, src |-> src],
                                      [name |-> NameTxt, isDir |-> FALSE, parent |-> <<>>,
                                       present |-> TRUE, src |-> SrcGood] >>,
                  outDirExists |-> TRUE,
                  mkdirOk      |-> TRUE]
    /\ outFiles = OldFiles
    /\ \E in \in {Root, Join(Root, NameUnderscore)} :
          flags = Flags(in, "", "production", "", "my-service", "", 80)

SpecCSV == InitCSV /\ [][Next]_vars

(***************************************************************************)
(* The resource name and output path of two file names (lines 208-211,     *)
(* 315), for names made of one to MaxPieces pieces before ".csv".         *)
(***************************************************************************)
Pieces == { EndpointsToken, <<"a">>, <<"_">>, <<"-">>, <<"e", "n", "d">> }

RECURSIVE Concat(_)
Concat(ps) == IF ps = <<>> THEN <<>> ELSE Head(ps) \o Concat(Tail(ps))

FileNames == { Concat(ps) \o DotCsv : ps \in SeqUpTo(Pieces, MaxPieces) \ {<<>>} }

InitName ==
    /\ pc = "done"
    /\ idx = 1
    /\ LocalsIdle
    /\ stdout = <<>>
    /\ runResult = "nil"
    /\ calls = <<>>
    /\ fsys = [root |-> Root, rootExists |-> TRUE, readDirOk |-> TRUE, tree |-> <<>>,
               outDirExists |-> TRUE, mkdirOk |-> TRUE]
    /\ outFiles = <<>>
    /\ flags = Flags(Root, "", "production", "", "my-service", "", 80)
    /\ \E a \in FileNames, b \in FileNames :
          nm = [a |-> a, b |-> b, ra |-> <<>>, rb |-> <<>>, derived |-> FALSE]

\* lines 208-211 and 315 for the files a and b of the input directory
Derive ==
    /\ ~nm.derived
    /\ nm' = [nm EXCEPT !.ra = ResourceName(Join(flags.inputDir, nm.a)),
                        !.rb = ResourceName(Join(flags.inputDir, nm.b)),
                        !.derived = TRUE]
    /\ UNCHANGED <<flags, fsys, outFiles, pc, idx, Locals, stdout, runResult, calls>>

NextName == Derive

SpecName == InitName /\ [][NextName]_vars

(***************************************************************************)
(* Claims.                                                                 *)
(***************************************************************************)
\* es[i] is the first endpoint of es with its (non-empty) prefix
FirstWithPrefix(es, i) ==
    /\ es[i].Prefix # <<>>
    /\ \A j \in 1..(i - 1) : es[j].Prefix # es[i].Prefix

\* how many distinct non-empty prefixes occur first at or before position i
PrefixRank(es, i) == Cardinality({j \in 1..i : FirstWithPrefix(es, j)})

RewriteFilter ==
    [Type       |-> "URLRewrite",
     URLRewrite |-> [Path |-> [Type |-> "ReplacePrefixMatch", ReplacePrefixMatch |-> "/"]]]

\* C1: once the route of a source is built, its rules before the last are one rewrite
\* rule per distinct non-empty prefix of the collected endpoints, the i-th for the i-th
\* distinct prefix in order of first occurrence, each with the single match PathPrefix
\* on the prefix and no method, and the single filter URLRewrite / ReplacePrefixMatch "/".
C1_RewriteRulePerPrefix ==
    route # NoRoute =>
        LET rules == route.Spec.Rules
            es    == endpoints
            n     == Cardinality({es[i].Prefix : i \in 1..Len(es)} \ {<<>>})
        IN  /\ Len(es) >= 1
            /\ Len(rules) = n + 1
            /\ \A i \in 1..Len(es) :
                  FirstWithPrefix(es, i) =>
                      LET r == rules[PrefixRank(es, i)]
                      IN  /\ r.Matches = << [Path   |-> [Type  |-> "PathPrefix",
                                                         Value |-> es[i].Prefix],
                                             Method |-> <<>>] >>
                          /\ r.Filters = << RewriteFilter >>

\* C1 witness: a route built from three endpoints with prefixes p, q, p
C1_Witness ==
    /\ route # NoRoute
    /\ Len(endpoints) = 3
    /\ endpoints[1].Prefix # <<>>
    /\ endpoints[2].Prefix \notin {<<>>, endpoints[1].Prefix}
    /\ endpoints[3].Prefix = endpoints[1].Prefix
    /\ Len(route.Spec.Rules) = 3

\* C2: once the route of a source is built, its last rule is the only rule without
\* filters, and has one match per collected endpoint, in order: PathPrefix on the
\* endpoint's url with the endpoint's method in upper case (an empty method stays
\* empty), whatever the endpoint's prefix and whether or not the pair occurred before.
C2_CatchAllLast ==
    route # NoRoute =>
        LET rules == route.Spec.Rules
            last  == rules[Len(rules)]
            es    == endpoints
        IN  /\ Len(es) >= 1
            /\ last.Filters = <<>>
            /\ \A i \in 1..(Len(rules) - 1) : rules[i].Filters # <<>>
            /\ Len(last.Matches) = Len(es)
            /\ \A i \in 1..Len(es) :
                  /\ last.Matches[i].Path = [Type |-> "PathPrefix", Value |-> es[i].URL]
                  /\ Len(last.Matches[i].Method) = Len(es[i].Method)
                  /\ \A k \in 1..Len(es[i].Method) :
                        last.Matches[i].Method[k] = UpperChar(es[i].Method[k])

\* C2 witness: an endpoint with a prefix twice (method "get" matched as "GET"), then an
\* endpoint with no prefix and an empty method
C2_Witness ==
    /\ route # NoRoute
    /\ Len(endpoints) = 3
    /\ endpoints[1] = endpoints[2]
    /\ endpoints[1].Prefix # <<>>
    /\ endpoints[1].Method = FieldGet
    /\ endpoints[3].Prefix = <<>>
    /\ endpoints[3].Method = <<>>
    /\ LET m == route.Spec.Rules[Len(route.Spec.Rules)].Matches
       IN  /\ Len(m) = 3
           /\ m[1] = m[2]
           /\ m[1].Method = FieldGET
           /\ m[3].Method = <<>>

\* a name holds the piece somewhere
Contains(s, piece) ==
    \E i \in 1..Len(s) : HasPrefix(SubSeq(s, i, Len(s)), piece)

\* C3 as claimed: two distinct file names have distinct resource names and output paths
C3_CollisionFree ==
    (nm.derived /\ nm.a # nm.b) =>
        /\ nm.ra # nm.rb
        /\ OutPathOf(flags.outputDir, nm.ra) # OutPathOf(flags.outputDir, nm.rb)

PlainName(s) == ~Contains(s, <<"_">>) /\ ~Contains(s, EndpointsToken)

\* C3 as amended: two distinct file names that hold neither "_" nor "endpoints-" have
\* distinct resource names and output paths
C3_CollisionFreeAmongPlain ==
    (nm.derived /\ nm.a # nm.b /\ PlainName(nm.a) /\ PlainName(nm.b)) =>
        /\ nm.ra # nm.rb
        /\ OutPathOf(flags.outputDir, nm.ra) # OutPathOf(flags.outputDir, nm.rb)

\* C3 witness: the names "a-.csv" and "a.csv" derived to "a-" and "a"
C3_Witness ==
    /\ nm.derived
    /\ nm.a = <<"a", "-">> \o DotCsv
    /\ nm.b = <<"a">> \o DotCsv
    /\ nm.ra = <<"a", "-">>
    /\ nm.rb = <<"a">>

\* what made run fail before any source was processed
SetupFailed ==
    \/ ~fsys.outDirExists
    \/ Stat(fsys, flags.inputDir) = "missing"
    \/ Stat(fsys, flags.inputDir) = "file" /\ ~HasSuffix(flags.inputDir, DotCsv)
    \/ Stat(fsys, flags.inputDir) = "dir" /\ ~fsys.readDirOk

\* C4 as claimed: an error of processCSV never changes what run returns; run fails
\* only for the output directory, the input path, the extension or the listing
C4_SourceErrorsNeverFailRun ==
    pc = "done" => (runResult # "nil" <=> SetupFailed)

\* C4 as amended: for a directory, an error of processCSV never changes what run
\* returns; for a single file, run returns what processCSV returned
C4_SourceErrorsFailOnlySingleFileRun ==
    pc = "done" =>
        /\ SetupFailed => runResult # "nil" /\ calls = <<>>
        /\ (~SetupFailed /\ Stat(fsys, flags.inputDir) = "dir") => runResult = "nil"
        /\ (~SetupFailed /\ Stat(fsys, flags.inputDir) = "file") =>
               (Len(calls) = 1 /\ runResult = calls[1].err)

\* C4 witness: a run over a directory has ended with success after a source failed
C4_Witness ==
    /\ pc = "done"
    /\ Stat(fsys, flags.inputDir) = "dir"
    /\ \E i \in 1..Len(calls) : calls[i].err # "nil"
    /\ runResult = "nil"

\* the entries of the input directory, in listing order
Immediate(n) ==
    IF flags.inputDir = fsys.root
    THEN n.parent = <<>>
    ELSE n.parent # <<>> /\ flags.inputDir = Join(fsys.root, n.parent)

\* C5: when run has gone through a directory, processCSV was called once for each
\* immediate entry that is no directory and ends in ".csv", in listing order, and for
\* nothing else; each call that failed was reported with its file's name, in order.
C5_EachCsvEntryOnce ==
    (pc = "done" /\ ~SetupFailed /\ Stat(fsys, flags.inputDir) = "dir") =>
        LET want   == SelectSeq(fsys.tree,
                          LAMBDA n : Immediate(n) /\ ~n.isDir /\ HasSuffix(n.name, DotCsv))
            failed == SelectSeq(calls, LAMBDA c : c.err # "nil")
            errors == SelectSeq(stdout, LAMBDA m : m.kind = "Error processing")
        IN  /\ Len(calls) = Len(want)
            /\ \A i \in 1..Len(want) :
                  calls[i].path = flags.inputDir \o <<"/">> \o want[i].name
            /\ Len(errors) = Len(failed)
            /\ \A i \in 1..Len(failed) :
                  /\ failed[i].path = flags.inputDir \o <<"/">> \o errors[i].arg
                  /\ failed[i].err = errors[i].err

\* C5 witness: a directory with a subdirectory named like a CSV file and two CSV
\* files, of which the first failed and the second was processed
C5_Witness ==
    /\ pc = "done"
    /\ flags.inputDir = fsys.root
    /\ \E i \in 1..Len(fsys.tree) : fsys.tree[i].isDir
    /\ Len(calls) = 2
    /\ calls[1].err # "nil"
    /\ calls[2].err = "nil"
    /\ Len(stdout) = 2

RecordsRead ==
    SelectSeq(SubSeq(rd.lines, 1, rd.pos), LAMBDA l : l.kind = "fields")

\* the last column of the header that is named key, or 0
ColumnOf(hdr, key) ==
    LET named == {i \in 1..Len(hdr) : ToLower(TrimSpace(hdr[i])) = key}
    IN  IF named = {} THEN 0 ELSE CHOOSE i \in named : \A j \in named : j <= i

\* the columns of the four recognized names
ColumnsOf(hdr) == [key \in {KeyMethod, KeyURL, KeyPrefix, KeyComment} |-> ColumnOf(hdr, key)]

Cell(cols, row, key) ==
    IF cols[key] = 0 \/ cols[key] > Len(row)
    THEN <<>>
    ELSE TrimSpace(row[cols[key]])

Collected(cols, row) ==
    /\ Len(row) > 0
    /\ ~HasPrefix(TrimSpace(row[1]), Hash)
    /\ Cell(cols, row, KeyURL) # <<>>

\* C7: at each point of the reading, the collected endpoints are, in order, the rows
\* read after the header whose first field does not begin with "#" after trimming and
\* whose url column is not empty after trimming, with every field trimmed and a
\* column that is absent from the header or past the end of the row read as "".
C7_EndpointsAreCollectedRows ==
    header # <<>> =>
        LET read == RecordsRead
            cols == ColumnsOf(read[1].fields)
            kept == SelectSeq(Tail(read), LAMBDA l : Collected(cols, l.fields))
        IN  endpoints = [i \in 1..Len(kept) |->
                            [Method  |-> Cell(cols, kept[i].fields, KeyMethod),
                             URL     |-> Cell(cols, kept[i].fields, KeyURL),
                             Prefix  |-> Cell(cols, kept[i].fields, KeyPrefix),
                             Comment |-> Cell(cols, kept[i].fields, KeyComment)]]

\* C7 witness: under Method,URL,Prefix the rows " #,/b", "get, ,/p" and ",/a" were read
\* and only the last was collected
C7_Witness ==
    /\ pc = "generate"
    /\ rd.lines = << Row(HeaderMUP),
                     Row(<<<<" ", "#">>, FieldB>>),
                     Row(<<FieldGet, <<" ">>, FieldP>>),
                     Row(<<<<>>, FieldA>>) >>
    /\ endpoints = << [Method |-> <<>>, URL |-> FieldA, Prefix |-> <<>>, Comment |-> <<>>] >>

\* every document of the output directory
Docs == {outFiles[p].doc : p \in {q \in DOMAIN outFiles : outFiles[q].kind = "doc"}}

\* C8: every document written has one parent reference, to the Gateway of the
\* configured name, in the configured gateway namespace or, when that is empty, in
\* the document's own namespace, which is the configured namespace either way.
C8_OneParentRef ==
    \A d \in Docs :
        /\ d.Metadata.Namespace = flags.namespace
        /\ d.Spec.ParentRefs =
              << [Group     |-> "gateway.networking.k8s.io",
                  Kind      |-> "Gateway",
                  Name      |-> flags.gatewayName,
                  Namespace |-> IF flags.gatewayNamespace # ""
                                THEN flags.gatewayNamespace
                                ELSE d.Metadata.Namespace] >>

\* C8 witness: a document written with no gateway namespace configured
C8_Witness ==
    /\ flags.gatewayNamespace = ""
    /\ \E d \in Docs : d.Spec.ParentRefs[1].Namespace = "production"

\* C9: every rule of every document written in the run has one backend reference,
\* with weight 1 and the service name, namespace and port the flags hold now.
C9_OneBackendPerRule ==
    \A d \in Docs :
        \A i \in 1..Len(d.Spec.Rules) :
            d.Spec.Rules[i].BackendRefs =
                << [Group     |-> "",
                    Kind      |-> "Service",
                    Name      |-> flags.serviceName,
                    Namespace |-> flags.serviceNamespace,
                    Port      |-> flags.servicePort,
                    Weight    |-> 1] >>

\* C9 witness: two documents written in one run, with a rewrite rule
C9_Witness ==
    /\ pc = "done"
    /\ Cardinality(Docs) = 2
    /\ \E d \in Docs : Len(d.Spec.Rules) = 2

\* the source of SpecCSV's run
TheSource == fsys.tree[1].src

FirstRecordOf(lines) == SelectSeq(lines, LAMBDA l : l.kind = "fields")[1].fields

NoUrlColumn(hdr) == \A i \in 1..Len(hdr) : ToLower(TrimSpace(hdr[i])) # KeyURL

HeaderWithoutUrl ==
    /\ TheSource.openable
    /\ TheSource.lines # <<>>
    /\ TheSource.lines[1].kind = "fields"
    /\ NoUrlColumn(FirstRecordOf(TheSource.lines))

\* the header read is the first record of the source, "#" in front or not
HeaderIsFirstRecord ==
    header # <<>> => header = FirstRecordOf(rd.lines)

====
